---- MODULE Spec2Model ----
(***************************************************************************)
(* The snippet store service of src/main.py: five FastAPI handlers over    *)
(* two SQLite tables (users, snippets), each handler running in a worker   *)
(* thread with its own SQLAlchemy session.  Every statement that reaches   *)
(* the database (a SELECT, or the flush and COMMIT of db.commit()) is one  *)
(* step; the steps of different workers interleave.                        *)
(***************************************************************************)
EXTENDS Integers, Sequences, FiniteSets, TLC

\* ---------------------------------------------------------------- bounds
MaxClock == 1
MaxUpserts == 2

\* ---------------------------------------------------------------- inputs
Codes == {"c1", "c2"}
\* Strings whose characters matter are sequences of one-character strings.
Languages == { <<"P", "y">>, <<"j", "s">> }
Filters == { <<"p", "Y">>, <<"s", "j">>, <<"p", "_">> }
\* The (user_str_id, snippet_name) pairs the requests name, and the
\* (language, code_content) bodies they send.
Keys == {<<"a", "x">>, <<"a", "y">>, <<"b", "x">>}
Bodies == Languages \X Codes
\* The same for the concurrent server, where the state space is larger.
RaceKeys == {<<"a", "x">>, <<"b", "x">>}
RaceBodies == { <<(<<"P", "y">>), "c1">>, <<(<<"j", "s">>), "c2">> }
\* Worker threads of the server; SerialWorkers is the server handling one
\* request at a time.
Workers == {"w1", "w2"}
SerialWorkers == {"w1"}

VARIABLES
    users,      \* table users: the set of user_str_id primary keys
    snippets,   \* table snippets: a set of rows, id is the primary key
    clock,      \* the latest time datetime.utcnow() returned
    req,        \* per worker: the request it is handling and where it is
    resp,       \* the response sent last, until an upsert or delete arrives
    started,    \* upsert requests received so far
    lastWrite,  \* history: per (user, name), the last write and who made it
    raced       \* history: per worker, an insert of its key was committed
                \* by another worker since its existence query

vars == <<users, snippets, clock, req, resp, started, lastWrite, raced>>

\* ---------------------------------------------------------------- records
\* A row of snippets; NoRow is the None of an empty query.
NoRow ==
    [id |-> 0, user_str_id |-> "", snippet_name |-> "", language |-> <<>>,
     code_content |-> "", created_at |-> 0, updated_at |-> 0]

\* The last write of a key: none, a commit by a request still running
\* ("wr"), an upsert that returned ("ups", with the body sent and the row
\* returned) or a delete that returned its confirmation ("del").
NoWrite ==
    [op |-> "none", by |-> "", language |-> <<>>, code_content |-> "",
     row |-> NoRow]

\* A worker's request: its inputs, the step it is at (pc), the row its
\* query loaded, the updated_at it set; newUser, t0 (the clock when it
\* arrived) and prev (the last write of its key then) are history.
Idle ==
    [op |-> "idle", pc |-> "idle", user_str_id |-> "", snippet_name |-> "",
     language |-> <<>>, code_content |-> "", row |-> NoRow, stamp |-> 0,
     newUser |-> FALSE, t0 |-> 0, prev |-> NoWrite]

\* A response: the request answered, the status, the rows returned; the
\* exp fields and t0, t1 (the clock at arrival and at return) are the
\* history the response is to be held against.
NoResp ==
    [op |-> "none", status |-> 0, user_str_id |-> "", snippet_name |-> "",
     language |-> <<>>, code_content |-> "", rows |-> <<>>,
     expNames |-> {}, expRows |-> {}, expWrite |-> NoWrite, t0 |-> 0, t1 |-> 0]

\* ---------------------------------------------------------------- queries
\* .first() of a query without ORDER BY: SQLite walks the index, whose
\* entries of equal key are in rowid order, so the lowest id comes first.
First(S) ==
    IF S = {} THEN NoRow ELSE CHOOSE r \in S : \A q \in S : r.id <= q.id

RECURSIVE All(_)
\* .all(): the matching rows in rowid order.
All(S) ==
    IF S = {} THEN <<>> ELSE <<First(S)>> \o All(S \ {First(S)})

\* INTEGER PRIMARY KEY without AUTOINCREMENT: the new rowid is one more than
\* the largest rowid in the table, so the id of a deleted last row is reused.
NextId ==
    IF snippets = {} THEN 1
    ELSE (CHOOSE r \in snippets : \A q \in snippets : q.id <= r.id).id + 1

ById(i) == {r \in snippets : r.id = i}

\* The bug of a lookup that forgets the user: any user's snippet of that name.
SnippetQueryAnyUser(u, n) == {r \in snippets : r.snippet_name = n}

\* db.query(Snippet).filter(user_str_id == u, snippet_name == n)
SnippetQuery(u, n) ==
    {r \in snippets : r.user_str_id = u /\ r.snippet_name = n}

\* The bug of a list that forgets the user: every row of the table.
UserQueryAnyUser(u) == snippets

\* db.query(Snippet).filter(user_str_id == u)
UserQuery(u) == {r \in snippets : r.user_str_id = u}

\* SQLite's lower(): ASCII letters only.
Lower(ch) ==
    CASE ch = "P" -> "p"
      [] ch = "Y" -> "y"
      [] ch = "J" -> "j"
      [] ch = "S" -> "s"
      [] OTHER -> ch

LowerStr(s) == [i \in 1..Len(s) |-> Lower(s[i])]

RECURSIVE Like(_, _)
\* SQLite's LIKE without an ESCAPE clause: % matches any run of characters,
\* _ matches any one character, every other character matches itself.
Like(pat, str) ==
    IF pat = <<>> THEN str = <<>>
    ELSE IF Head(pat) = "%"
         THEN Like(Tail(pat), str) \/ (str /= <<>> /\ Like(pat, Tail(str)))
    ELSE IF str = <<>> THEN FALSE
    ELSE /\ (Head(pat) = "_" \/ Lower(Head(pat)) = Lower(Head(str)))
         /\ Like(Tail(pat), Tail(str))

\* Snippet.language.ilike(f"%{language}%"): lower(language) LIKE lower(?)
ILike(column, language) ==
    Like(LowerStr(<<"%">> \o language \o <<"%">>), LowerStr(column))

\* db.query(Snippet).filter(user_str_id == u, language.ilike(...))
LanguageQuery(u, language) ==
    {r \in snippets : r.user_str_id = u /\ ILike(r.language, language)}

\* ---------------------------------------------------------------- history
Key(r) == <<r.user_str_id, r.snippet_name>>

\* A commit of worker p that wrote the rows R marks their keys as written.
Written(p, R) ==
    [k \in Keys |->
        IF \E r \in R : Key(r) = k
        THEN [NoWrite EXCEPT !.op = "wr", !.by = p]
        ELSE lastWrite[k]]

\* An upsert of the key k by worker p ends with k deleted meanwhile: the
\* delete is no longer the last thing that happened to k.
Ended(p, k) ==
    IF lastWrite[k].op = "del"
    THEN [lastWrite EXCEPT ![k] = [NoWrite EXCEPT !.op = "wr", !.by = p]]
    ELSE lastWrite

\* What a get of the key k is held against: the last write of k, when every
\* request that names k has ended.
Settled(k) ==
    IF \E q \in Workers :
          req[q].op /= "idle" /\ <<req[q].user_str_id, req[q].snippet_name>> = k
    THEN NoWrite
    ELSE lastWrite[k]

\* The names of u upserted and not deleted since.
LiveNames(u) ==
    {k[2] : k \in {j \in Keys : j[1] = u /\ lastWrite[j].op = "ups"}}

\* The response r leaves and the session of worker p is closed.
Finish(p, r) ==
    /\ resp' = r
    /\ req' = [req EXCEPT ![p] = Idle]

CanReceive(p) == req[p].pc = "idle"

CanUpsert(p) == CanReceive(p) /\ started < MaxUpserts

Init ==
    /\ users = {}
    /\ snippets = {}
    /\ clock = 0
    /\ req = [p \in Workers |-> Idle]
    /\ resp = NoResp
    /\ started = 0
    /\ lastWrite = [k \in Keys |-> NoWrite]
    /\ raced = [p \in Workers |-> FALSE]

\* datetime.utcnow(): the clock never goes backwards, and between two
\* readings it stands still or advances.
Utcnow(last) == {t \in {last, last + 1} : t <= MaxClock}

\* ---------------------------------------------------------------- upsert
\* An exception no handler catches: the 500 response.
Error(p, op) ==
    [NoResp EXCEPT !.op = op, !.status = 500,
                   !.user_str_id = req[p].user_str_id,
                   !.snippet_name = req[p].snippet_name,
                   !.language = req[p].language,
                   !.code_content = req[p].code_content]

\* POST /users/{u}/snippets arrives; ensure_user_exists runs its query.
EnsureUserQuery(p, u, n, l, c) ==
    /\ CanUpsert(p)
    /\ req' = [req EXCEPT ![p] =
                 [Idle EXCEPT !.op = "upsert",
                              !.pc = IF u \in users THEN "query" ELSE "adduser",
                              !.user_str_id = u, !.snippet_name = n,
                              !.language = l, !.code_content = c,
                              !.t0 = clock, !.prev = lastWrite[<<u, n>>]]]
    /\ resp' = NoResp
    /\ started' = started + 1
    /\ UNCHANGED <<users, snippets, clock, lastWrite, raced>>

\* The bug of a db.add(user) that is never committed.
EnsureUserNoCommit(p) ==
    /\ req[p].pc = "adduser"
    /\ req' = [req EXCEPT ![p].pc = "query", ![p].newUser = TRUE]
    /\ UNCHANGED <<users, snippets, clock, resp, started, lastWrite, raced>>

\* db.add(user); db.commit(): INSERT INTO users.  user_str_id is the primary
\* key, so the insert of a key that is there by now raises IntegrityError,
\* which nothing catches: the request ends with a 500.
EnsureUserCommit(p) ==
    /\ req[p].pc = "adduser"
    /\ IF req[p].user_str_id \in users
       THEN /\ Finish(p, Error(p, "upsert"))
            /\ UNCHANGED users
       ELSE /\ users' = users \cup {req[p].user_str_id}
            /\ req' = [req EXCEPT ![p].pc = "query", ![p].newUser = TRUE]
            /\ UNCHANGED resp
    /\ UNCHANGED <<snippets, clock, started, lastWrite, raced>>

\* The bug of an upsert that never finds the existing row.
ExistingSnippetNever(u, n) == NoRow

\* existing_snippet = db.query(Snippet).filter(...).first()
ExistingSnippet(u, n) == First(SnippetQuery(u, n))

\* The branch on it: update the row found, or insert a new one.
UpsertQuery(p) ==
    /\ req[p].pc = "query"
    /\ LET existing == ExistingSnippet(req[p].user_str_id, req[p].snippet_name)
       IN  req' = [req EXCEPT ![p].row = existing,
                              ![p].pc = IF existing = NoRow THEN "insert"
                                                            ELSE "stamp"]
    /\ raced' = [raced EXCEPT ![p] = FALSE]
    /\ UNCHANGED <<users, snippets, clock, resp, started, lastWrite>>

\* existing_snippet.language = ...; .code_content = ...;
\* .updated_at = datetime.utcnow()
UpsertStamp(p) ==
    /\ req[p].pc = "stamp"
    /\ \E now \in Utcnow(clock) :
          /\ clock' = now
          /\ req' = [req EXCEPT ![p].stamp = now, ![p].pc = "update"]
    /\ UNCHANGED <<users, snippets, resp, started, lastWrite, raced>>

\* The attributes of the loaded object whose new value differs from the
\* loaded one; the flush writes these columns only.
Dirty(loaded, l, c, stamp) ==
    {f \in {"language", "code_content", "updated_at"} :
        \/ f = "language" /\ l /= loaded.language
        \/ f = "code_content" /\ c /= loaded.code_content
        \/ f = "updated_at" /\ stamp /= loaded.updated_at}

\* The bug of an update that writes the row anew, created_at included.
UpdatedRowRecreated(cur, loaded, l, c, stamp, now) ==
    [cur EXCEPT !.language = l, !.code_content = c, !.created_at = stamp,
                !.updated_at = stamp]

\* UPDATE snippets SET <dirty columns> WHERE id = ?: the row cur after it.
\* updated_at, when the flush does not write it, gets its onupdate default.
UpdatedRow(cur, loaded, l, c, stamp, now) ==
    LET d == Dirty(loaded, l, c, stamp)
    IN  [cur EXCEPT
           !.language = IF "language" \in d THEN l ELSE @,
           !.code_content = IF "code_content" \in d THEN c ELSE @,
           !.updated_at = IF "updated_at" \in d THEN stamp ELSE now]

\* db.commit() of the update branch.  An UPDATE that matches no row raises
\* StaleDataError; nothing dirty means no UPDATE at all.
UpsertUpdate(p) ==
    /\ req[p].pc = "update"
    /\ LET r == req[p]
           target == ById(r.row.id)
           d == Dirty(r.row, r.language, r.code_content, r.stamp)
       IN  IF d = {}
           THEN /\ req' = [req EXCEPT ![p].pc = "refresh"]
                /\ UNCHANGED <<snippets, clock, resp, lastWrite>>
           ELSE \E now \in (IF "updated_at" \in d THEN {clock}
                                                   ELSE Utcnow(clock)) :
                  /\ clock' = now
                  /\ IF target = {}
                     THEN /\ Finish(p, Error(p, "upsert"))
                          /\ UNCHANGED <<snippets, lastWrite>>
                     ELSE LET cur == First(target)
                              new == UpdatedRow(cur, r.row, r.language,
                                                r.code_content, r.stamp, now)
                          IN  /\ snippets' = (snippets \ {cur}) \cup {new}
                              /\ lastWrite' = Written(p, {cur})
                              /\ req' = [req EXCEPT ![p].pc = "refresh"]
                              /\ UNCHANGED resp
    /\ UNCHANGED <<users, started, raced>>

\* The workers that are between their existence query and their commit for
\* the key k.
Between(k) ==
    {q \in Workers : /\ req[q].op = "upsert"
                     /\ req[q].pc \in {"insert", "stamp", "update"}
                     /\ <<req[q].user_str_id, req[q].snippet_name>> = k}

\* Snippet(user_str_id=..., snippet_name=..., language=..., code_content=...)
\* as the INSERT stores it.
NewSnippet(u, n, l, c, created, updated) ==
    [id |-> NextId, user_str_id |-> u, snippet_name |-> n, language |-> l,
     code_content |-> c, created_at |-> created, updated_at |-> updated]

\* db.add(new_snippet); db.commit(): INSERT INTO snippets.  The flush calls
\* the column defaults one after the other, created_at first, so the clock
\* may advance between the two.
UpsertInsert(p) ==
    /\ req[p].pc = "insert"
    /\ \E created \in Utcnow(clock) : \E updated \in Utcnow(created) :
          /\ LET r == req[p]
                 new == NewSnippet(r.user_str_id, r.snippet_name, r.language,
                                   r.code_content, created, updated)
             IN  /\ snippets' = snippets \cup {new}
                 /\ clock' = updated
                 /\ lastWrite' = Written(p, {new})
                 /\ req' = [req EXCEPT ![p].row = new, ![p].pc = "refresh"]
                 /\ raced' = [q \in Workers |->
                                IF q /= p /\ q \in Between(Key(new))
                                THEN TRUE ELSE raced[q]]
    /\ UNCHANGED <<users, resp, started>>

\* db.refresh(snippet); return snippet: SELECT ... WHERE id = ?, and the
\* response is built from the row read.  No row raises InvalidRequestError.
UpsertRefresh(p) ==
    /\ req[p].pc = "refresh"
    /\ LET r == req[p]
           k == <<r.user_str_id, r.snippet_name>>
           target == ById(r.row.id)
       IN  IF target = {}
           THEN /\ Finish(p, Error(p, "upsert"))
                /\ lastWrite' = Ended(p, k)
           ELSE /\ Finish(p, [NoResp EXCEPT
                                 !.op = "upsert", !.status = 200,
                                 !.user_str_id = r.user_str_id,
                                 !.snippet_name = r.snippet_name,
                                 !.language = r.language,
                                 !.code_content = r.code_content,
                                 !.rows = <<First(target)>>,
                                 !.expWrite = r.prev,
                                 !.t0 = r.t0, !.t1 = clock])
                /\ lastWrite' =
                     IF lastWrite[k].op = "wr" /\ lastWrite[k].by = p
                     THEN [lastWrite EXCEPT ![k] =
                             [op |-> "ups", by |-> p,
                              language |-> r.language,
                              code_content |-> r.code_content,
                              row |-> First(target)]]
                     ELSE Ended(p, k)
    /\ UNCHANGED <<users, snippets, clock, started, raced>>

\* ---------------------------------------------------------------- reads
\* response_model=List[SnippetSummary]: what a list or filter response shows
\* of each row.
SnippetSummary(r) ==
    [snippet_name |-> r.snippet_name, language |-> r.language,
     updated_at |-> r.updated_at]

\* response_model=SnippetResponse: what an upsert or get response shows.
SnippetResponse(r) ==
    [snippet_name |-> r.snippet_name, language |-> r.language,
     code_content |-> r.code_content, created_at |-> r.created_at,
     updated_at |-> r.updated_at]

\* The body of a list or filter response.
Summaries(rows) == [i \in 1..Len(rows) |-> SnippetSummary(rows[i])]

\* GET /users/{u}/snippets/{n}
GetSnippet(p, u, n) ==
    /\ CanReceive(p)
    /\ LET snippet == First(SnippetQuery(u, n))
       IN  resp' = [NoResp EXCEPT
                      !.op = "get",
                      !.status = IF snippet = NoRow THEN 404 ELSE 200,
                      !.user_str_id = u, !.snippet_name = n,
                      !.rows = IF snippet = NoRow THEN <<>> ELSE <<snippet>>,
                      !.expWrite = Settled(<<u, n>>)]
    /\ UNCHANGED <<users, snippets, clock, req, started, lastWrite, raced>>

\* GET /users/{u}/snippets
ListUserSnippets(p, u) ==
    /\ CanReceive(p)
    /\ resp' = [NoResp EXCEPT !.op = "list", !.status = 200,
                              !.user_str_id = u,
                              !.rows = All(UserQuery(u)),
                              !.expNames = LiveNames(u)]
    /\ UNCHANGED <<users, snippets, clock, req, started, lastWrite, raced>>

\* needle occurs in hay as a contiguous run.
Contains(hay, needle) ==
    \E i \in 0..(Len(hay) - Len(needle)) :
        SubSeq(hay, i + 1, i + Len(needle)) = needle

\* The snippets of u whose language contains s, both in lower case.
Literal(u, s) ==
    {r \in snippets : /\ r.user_str_id = u
                      /\ Contains(LowerStr(r.language), LowerStr(s))}

\* GET /users/{u}/snippets/language/{language}
GetSnippetsByLanguage(p, u, language) ==
    /\ CanReceive(p)
    /\ resp' = [NoResp EXCEPT
                  !.op = "filter", !.status = 200, !.user_str_id = u,
                  !.language = language,
                  !.rows = All(LanguageQuery(u, language)),
                  !.expRows = Literal(u, language)]
    /\ UNCHANGED <<users, snippets, clock, req, started, lastWrite, raced>>

\* ---------------------------------------------------------------- delete
\* DELETE /users/{u}/snippets/{n}: the query, and the 404 when it is empty.
DeleteQuery(p, u, n) ==
    /\ CanReceive(p)
    /\ LET snippet == First(SnippetQuery(u, n))
       IN  IF snippet = NoRow
           THEN /\ resp' = [NoResp EXCEPT !.op = "delete", !.status = 404,
                                          !.user_str_id = u,
                                          !.snippet_name = n]
                /\ UNCHANGED req
           ELSE /\ req' = [req EXCEPT ![p] =
                             [Idle EXCEPT !.op = "delete", !.pc = "delete",
                                          !.user_str_id = u,
                                          !.snippet_name = n,
                                          !.row = snippet,
                                          !.prev = lastWrite[<<u, n>>]]]
                /\ resp' = NoResp
    /\ UNCHANGED <<users, snippets, clock, started, lastWrite, raced>>

\* The bug of a bulk delete by (user, name) instead of the delete of one row.
DeleteCommitBulk(p) ==
    /\ req[p].pc = "delete"
    /\ LET r == req[p]
           k == <<r.user_str_id, r.snippet_name>>
           target == {x \in snippets : Key(x) = k}
       IN  /\ snippets' = snippets \ target
           /\ lastWrite' = [lastWrite EXCEPT ![k] =
                              [NoWrite EXCEPT !.op = "del", !.by = p]]
           /\ Finish(p, [NoResp EXCEPT !.op = "delete", !.status = 200,
                                       !.user_str_id = r.user_str_id,
                                       !.snippet_name = r.snippet_name])
    /\ UNCHANGED <<users, clock, started, raced>>

\* db.delete(snippet); db.commit(): DELETE FROM snippets WHERE id = ?.  A
\* DELETE that matches no row is only a warning; the confirmation follows.
DeleteCommit(p) ==
    /\ req[p].pc = "delete"
    /\ LET r == req[p]
           k == <<r.user_str_id, r.snippet_name>>
           target == ById(r.row.id)
       IN  /\ snippets' = snippets \ target
           /\ lastWrite' = [Written(p, target) EXCEPT ![k] =
                              [NoWrite EXCEPT
                                 !.op = IF lastWrite[k] = r.prev THEN "del"
                                                                 ELSE "wr",
                                 !.by = p]]
           /\ Finish(p, [NoResp EXCEPT !.op = "delete", !.status = 200,
                                       !.user_str_id = r.user_str_id,
                                       !.snippet_name = r.snippet_name])
    /\ UNCHANGED <<users, clock, started, raced>>

\* ---------------------------------------------------------------- system
\* What worker p may do next, with requests naming the keys K and sending
\* the bodies B.
Handler(p, K, B) ==
    \/ \E k \in K, b \in B : EnsureUserQuery(p, k[1], k[2], b[1], b[2])
    \/ EnsureUserCommit(p)
    \/ UpsertQuery(p)
    \/ UpsertStamp(p)
    \/ UpsertUpdate(p)
    \/ UpsertInsert(p)
    \/ UpsertRefresh(p)
    \/ \E k \in K : GetSnippet(p, k[1], k[2])
    \/ \E u \in {k[1] : k \in K} : ListUserSnippets(p, u)
    \/ \E u \in {k[1] : k \in K}, f \in Filters :
          GetSnippetsByLanguage(p, u, f)
    \/ \E k \in K : DeleteQuery(p, k[1], k[2])
    \/ DeleteCommit(p)

\* The server as deployed: the handlers run in a thread pool.
Next == \E p \in Workers : Handler(p, RaceKeys, RaceBodies)

Spec == Init /\ [][Next]_vars

\* The server handling one request at a time.
NextSerial == \E p \in SerialWorkers : Handler(p, Keys, Bodies)

SpecSerial == Init /\ [][NextSerial]_vars

\* ---------------------------------------------------------------- claims
Range(f) == {f[i] : i \in 1..Len(f)}

\* C1: with requests handled one at a time, a list for user u answers 200
\* with exactly one summary per snippet name upserted for u and not deleted
\* since: no name twice, no row of another user, the empty sequence when
\* there is none.
ListIsExact ==
    resp.op = "list" =>
        LET body == Summaries(resp.rows)
        IN  /\ resp.status = 200
            /\ Len(body) = Cardinality(resp.expNames)
            /\ {x.snippet_name : x \in Range(body)} = resp.expNames
            /\ \A r \in Range(resp.rows) : r.user_str_id = resp.user_str_id

\* A list of one snippet of a user who also had a snippet deleted.
ListAfterDelete ==
    /\ resp.op = "list"
    /\ Len(resp.rows) = 1
    /\ \E k \in Keys : k[1] = resp.user_str_id /\ lastWrite[k].op = "del"

\* C2: a get of (u, n) right after an upsert of (u, n, l, c) completed, with
\* no write to (u, n) in between, answers 200 with language l and
\* code_content c.
GetAfterUpsert ==
    (resp.op = "get" /\ resp.expWrite.op = "ups") =>
        /\ resp.status = 200
        /\ Len(resp.rows) = 1
        /\ SnippetResponse(resp.rows[1]).language = resp.expWrite.language
        /\ SnippetResponse(resp.rows[1]).code_content
              = resp.expWrite.code_content

\* C3: with requests handled one at a time, an upsert of a pair whose
\* previous write was an upsert returns the created_at that upsert returned
\* and an updated_at not before the one it returned; an upsert that creates
\* the row returns a created_at and an updated_at that are readings of the
\* clock taken during the request, created_at first.
UpsertTimestamps ==
    (resp.op = "upsert" /\ resp.status = 200) =>
        LET now == SnippetResponse(resp.rows[1])
            prev == resp.expWrite
        IN  IF prev.op = "ups"
            THEN /\ now.updated_at >= SnippetResponse(prev.row).updated_at
                 /\ now.created_at = SnippetResponse(prev.row).created_at
            ELSE /\ prev.op \in {"none", "del"}
                 /\ resp.t0 <= now.created_at
                 /\ now.created_at <= now.updated_at
                 /\ now.updated_at <= resp.t1

\* An upsert that updated a row at a later time than the upsert before it.
UpsertLater ==
    /\ resp.op = "upsert"
    /\ resp.status = 200
    /\ resp.expWrite.op = "ups"
    /\ resp.rows[1].updated_at > resp.expWrite.row.updated_at
    /\ resp.rows[1].created_at < resp.rows[1].updated_at

\* C4: a get of (u, n) after a delete of (u, n) returned its confirmation,
\* with no upsert of the pair since, answers 404.
GetAfterDelete ==
    (resp.op = "get" /\ resp.expWrite.op = "del") => resp.status = 404

\* No snippet row has user u and name n.
Absent(u, n) ==
    ~ \E r \in snippets : r.user_str_id = u /\ r.snippet_name = n

\* C5: a get or a delete of a pair that has no snippet row answers 404 and
\* ends the request with no row of either table added, changed or removed.
NotFoundWritesNothing ==
    [][\A p \in Workers : \A k \in RaceKeys :
          ( /\ Absent(k[1], k[2])
            /\ (GetSnippet(p, k[1], k[2]) \/ DeleteQuery(p, k[1], k[2])) )
          => /\ resp'.status = 404
             /\ req'[p] = Idle
             /\ snippets' = snippets
             /\ users' = users]_vars

\* A delete answered 404 while the store holds rows.
NotFoundBesideRows ==
    /\ resp.op = "delete"
    /\ resp.status = 404
    /\ Absent(resp.user_str_id, resp.snippet_name)
    /\ snippets /= {}

\* C6: the filter by language s for user u returns exactly the snippets of
\* u whose language, in lower case, contains s in lower case as a contiguous
\* run of characters.
FilterIsLiteral ==
    resp.op = "filter" => Range(resp.rows) = resp.expRows

\* C7: an insert adds a second row for a (user, name) pair only in a race:
\* the inserting request ran its existence query before the other row was
\* committed.  (That the race happens is the witness.)
DuplicateOnlyByRace ==
    [][\A p \in Workers :
          (UpsertInsert(p) /\ ~ Absent(req[p].user_str_id, req[p].snippet_name))
          => raced[p]]_vars

\* Two rows with the same user and name.
DuplicateRows ==
    \E r1 \in snippets, r2 \in snippets : r1.id /= r2.id /\ Key(r1) = Key(r2)

\* C8: every upsert ends with the snippet record, never with an error.
UpsertNeverFails ==
    resp.op = "upsert" => resp.status = 200

\* C9 as stated: after any snippet operation that names user u, the User
\* record of u exists.
UserAfterAnyOperation ==
    resp.op /= "none" => resp.user_str_id \in users

\* C9 as amended: the User record of u exists once an upsert naming u is
\* past ensure_user_exists, and still after the upsert ended; only that
\* step of an upsert adds a User record, and none is ever removed.
UserByUpsertOnly ==
    /\ [](/\ resp.op = "upsert" => resp.user_str_id \in users
          /\ \A p \in Workers :
                (req[p].op = "upsert" /\ req[p].pc /= "adduser")
                => req[p].user_str_id \in users)
    /\ [][/\ users \subseteq users'
          /\ users' /= users =>
                \E p \in Workers : /\ req[p].pc = "adduser"
                                   /\ users' = users \cup {req[p].user_str_id}
         ]_vars

\* A user whose only snippet was deleted is still there.
OrphanUser ==
    /\ resp.op = "delete"
    /\ resp.status = 200
    /\ resp.user_str_id \in users
    /\ UserQuery(resp.user_str_id) = {}

\* C10 as stated: no state has an upsert that committed the User row of a
\* new user and not yet its snippet row.
UpsertIsOneWrite ==
    \A p \in Workers :
        ~ (req[p].newUser /\ req[p].pc \in {"query", "insert"})

\* The rows of both tables that a step added, changed or removed.
RowsWritten ==
    Cardinality((users \ users') \cup (users' \ users))
    + Cardinality({r.id : r \in (snippets \ snippets') \cup (snippets' \ snippets)})

\* C10 as amended: every commit writes at most one row; an upsert of a new
\* user is two commits, the User row and then the snippet row.
CommitIsOneRow ==
    [][RowsWritten <= 1]_vars

\* Another request lists the snippets of a user whose first upsert has
\* committed the User row and not the snippet row: it sees none.
UserWithoutSnippet ==
    \E p \in Workers :
        /\ req[p].newUser
        /\ req[p].pc = "insert"
        /\ req[p].user_str_id \in users
        /\ UserQuery(req[p].user_str_id) = {}
        /\ resp.op = "list"
        /\ resp.user_str_id = req[p].user_str_id
        /\ resp.rows = <<>>

====
